---- MODULE Spec2Model ----
(***************************************************************************)
(* Engagement graph: the aggregation script (scripts/update_data.py) that  *)
(* builds the Slack directory, counts Slack messages and completed Linear  *)
(* issues per email, merges the three and writes data/engagement.csv, and  *)
(* the dashboard script (app.py) that loads the file, groups, scores and   *)
(* ranks.                                                                  *)
(***************************************************************************)
EXTENDS Integers, Sequences, FiniteSets, TLC

VARIABLES
  pc,              \* position of the running script
  run,             \* number of aggregation runs started so far
  members,         \* users.list response: the "members" array
  messages,        \* conversations.history response: the "user" of each message
  issues,          \* Linear response: the assignee email of each issue node
  user_directory,  \* update_data.py main: user_directory
  df_slack,        \* update_data.py main: df_slack, rows of [Email, Count]
  df_linear,       \* update_data.py main: df_linear, rows of [Email, Count]
  rows,            \* update_data.py main: rows
  result,          \* how the last aggregation run ended
  printed,         \* what the aggregation run has printed
  csv,             \* data/engagement.csv
  df_raw,          \* app.py: df_raw
  df_filtered,     \* app.py: df_filtered
  w_slack,         \* app.py: w_slack, a float64 (0 while not bound)
  w_linear,        \* app.py: w_linear, a float64 (0 while not bound)
  df_grouped,      \* app.py: df_grouped
  df_ranked,       \* app.py: df_ranked (position = index after "index += 1")
  app_error        \* app.py: the exception that ended the script, "" for none

runVars == <<run, members, messages, issues, user_directory, df_slack, df_linear,
             rows, result, printed, csv>>
appVars == <<df_raw, df_filtered, w_slack, w_linear, df_grouped, df_ranked,
             app_error>>
vars == <<pc, runVars, appVars>>

----------------------------------------------------------------------------
(* Bounds of the model. *)

MaxMembers == 2      \* members in a users.list response (directory runs)
RunMaxMembers == 1   \* members in a users.list response (whole aggregation runs)
MaxMessages == 2     \* messages in a conversations.history response
MaxIssues == 1       \* issue nodes in a Linear response
MaxRuns == 2         \* aggregation runs in one behaviour
MaxRows == 2         \* rows of a count table handed to the merge
MaxCount == 2        \* largest count in a row of a count table

----------------------------------------------------------------------------
(* Values. *)

\* A key that is not in a dictionary (dict.get gives None).
Absent == "<absent>"

Emails == {"a@x.com", "b@x.com"}

\* Every string of the model, in Python's str order (code points).
StrOrder == <<"", "Amy", "Zed", "a@x.com", "b@x.com", "u1", "u2", "u3", "u4">>

StrPos(s) == CHOOSE i \in 1..Len(StrOrder) : StrOrder[i] = s

StrLt(s, t) == StrPos(s) < StrPos(t)

\* u["name"], the short handle of the member at position i of the response.
Handles == <<"u1", "u2", "u3", "u4">>

SeqsUpTo(S, n) == UNION {[1..k -> S] : k \in 0..n}

Range(f) == {f[x] : x \in DOMAIN f}

\* The orders in which a Python set of strings may be iterated.
Perms(S) == {p \in [1..Cardinality(S) -> S] : Range(p) = S}

\* A member record of users.list. A record without "profile" has no email;
\* real_name "" stands for a missing or empty real_name (both are falsy).
MemberRecords ==
  [is_bot : BOOLEAN, deleted : BOOLEAN, has_profile : {TRUE},
   email : Emails \cup {Absent, ""},
   is_restricted : BOOLEAN, is_ultra_restricted : BOOLEAN,
   real_name : {"", "Amy"}]
  \cup
  [is_bot : BOOLEAN, deleted : BOOLEAN, has_profile : {FALSE},
   email : {Absent},
   is_restricted : BOOLEAN, is_ultra_restricted : BOOLEAN,
   real_name : {"", "Amy"}]

\* The member records of the whole-run specification: one email, no real
\* name, no single-channel guest.
RunMemberRecords ==
  {u \in MemberRecords :
     /\ u.email \in {Absent, "a@x.com"}
     /\ u.real_name = ""
     /\ ~u.is_ultra_restricted}

\* {} of Python: a dictionary with no key.
EmptyDict == [k \in {} |-> Absent]

\* d[k] = v
DictPut(d, k, v) == [x \in DOMAIN d \cup {k} |-> IF x = k THEN v ELSE d[x]]

----------------------------------------------------------------------------
(* update_data.py: fetch_slack_user_directory *)

\* The guest test of line 39.
IsGuest(u) == u.is_restricted \/ u.is_ultra_restricted

\* The skip test of line 31 without its test of "deleted".
Excluded_NoDeletedTest(u) == u.is_bot \/ ~u.has_profile

\* The skip test of line 31.
Excluded(u) == u.is_bot \/ u.deleted \/ ~u.has_profile

\* "if not email" of line 35: None and "" are both skipped.
NoEmail(u) == u.email = Absent \/ u.email = ""

\* The dictionary stored at lines 41-45 for the member at position i.
DirectoryEntry(u, i) ==
  [UserName |-> IF u.real_name # "" THEN u.real_name ELSE Handles[i],
   Role     |-> IF IsGuest(u) THEN "Contractor" ELSE "Employee",
   Avatar   |-> ""]

\* One iteration of the loop of lines 29-45.
DirectoryStep(d, u, i) ==
  IF Excluded(u) THEN d
  ELSE IF NoEmail(u) THEN d
  ELSE DictPut(d, u.email, DirectoryEntry(u, i))

RECURSIVE DirectoryLoop(_, _, _)
DirectoryLoop(ms, i, d) ==
  IF i > Len(ms) THEN d
  ELSE DirectoryLoop(ms, i + 1, DirectoryStep(d, ms[i], i))

\* Lines 27-47: the directory built from a member list.
BuildDirectory(ms) == DirectoryLoop(ms, 1, EmptyDict)

----------------------------------------------------------------------------
(* The outcomes of a call to an external API. *)

\* users.list and conversations.history: the call returns, raises
\* SlackApiError, or raises an exception that is not a SlackApiError.
SlackOutcomes == {"ok", "SlackApiError", "OtherError"}

\* requests.post: a 200 response, another status code, or an exception.
LinearOutcomes == {"200", "not200", "Exception"}

\* pd.DataFrame(columns=[...]): a table with no row.
EmptyFrame == <<>>

----------------------------------------------------------------------------
(* update_data.py: fetch_slack_data *)

\* Lines 69-72: the ids (positions) that get an entry in uid_to_email.  The
\* test is "email" in u["profile"]: an empty email is an entry too.
UidHasEmail(ms, i) ==
  i \in 1..Len(ms) /\ ms[i].has_profile /\ ms[i].email # Absent

\* counts[email] = counts.get(email, 0) + 1, on a dictionary kept as its
\* items in insertion order.
CountOne(df, email) ==
  IF \E k \in 1..Len(df) : df[k].Email = email
    THEN [k \in 1..Len(df) |->
            IF df[k].Email = email
              THEN [Email |-> email, Count |-> df[k].Count + 1]
              ELSE df[k]]
    ELSE Append(df, [Email |-> email, Count |-> 1])

RECURSIVE SlackCountLoop(_, _, _, _)
SlackCountLoop(ms, msgs, k, df) ==
  IF k > Len(msgs) THEN df
  ELSE IF UidHasEmail(ms, msgs[k])
    THEN SlackCountLoop(ms, msgs, k + 1, CountOne(df, ms[msgs[k]].email))
    ELSE SlackCountLoop(ms, msgs, k + 1, df)

\* Lines 82-89: the table of message counts per email.
SlackCounts(ms, msgs) == SlackCountLoop(ms, msgs, 1, EmptyFrame)

----------------------------------------------------------------------------
(* update_data.py: fetch_linear_data *)

RECURSIVE LinearCountLoop(_, _, _)
LinearCountLoop(is, k, df) ==
  IF k > Len(is) THEN df
  ELSE IF is[k] # Absent /\ is[k] # ""
    THEN LinearCountLoop(is, k + 1, CountOne(df, is[k]))
    ELSE LinearCountLoop(is, k + 1, df)

\* Lines 132-139: the table of completed issues per assignee email.
LinearCounts(is) == LinearCountLoop(is, 1, EmptyFrame)

----------------------------------------------------------------------------
(* update_data.py: main, lines 169-208 *)

FrameEmails(df) == {df[k].Email : k \in 1..Len(df)}

\* Line 172 without the emails of the tracker table.
AllEmails_NoLinear(dir, ds, dl) == DOMAIN dir \cup FrameEmails(ds)

\* Line 172 (an empty table contributes the empty set, lines 170-171).
AllEmails(dir, ds, dl) == DOMAIN dir \cup FrameEmails(ds) \cup FrameEmails(dl)

RECURSIVE SumCounts_FirstRow(_, _, _)
\* The count of the first row of the email only (.iloc[0] for .sum()).
SumCounts_FirstRow(df, email, k) ==
  IF k > Len(df) THEN 0
  ELSE IF df[k].Email = email THEN df[k].Count
  ELSE SumCounts_FirstRow(df, email, k + 1)

RECURSIVE SumCounts(_, _, _)
\* df[df["Email"] == email][column].sum(), from row k on.
SumCounts(df, email, k) ==
  IF k > Len(df) THEN 0
  ELSE (IF df[k].Email = email THEN df[k].Count ELSE 0)
       + SumCounts(df, email, k + 1)

\* Lines 178-182: the profile of the directory, or the Unknown profile.
ProfileOf(dir, email) ==
  IF email \in DOMAIN dir THEN dir[email]
  ELSE [UserName |-> email, Role |-> "Unknown", Avatar |-> ""]

\* Line 207.
WorkingHoursOf(role) == IF role = "Employee" THEN 40 ELSE 20

\* Lines 178-208: the row appended for one email.
MergedRow(dir, ds, dl, email) ==
  LET profile == ProfileOf(dir, email) IN
  [Email        |-> email,
   User         |-> profile.UserName,
   Role         |-> profile.Role,
   Avatar       |-> profile.Avatar,
   SlackCount   |-> SumCounts(ds, email, 1),
   LinearCount  |-> SumCounts(dl, email, 1),
   WorkingHours |-> WorkingHoursOf(profile.Role)]

----------------------------------------------------------------------------
(* The environment of a run: what the three APIs will answer. *)

\* One more member in the users.list response.
UsersListMember(pool, max) ==
  /\ pc = "start"
  /\ Len(members) < max
  /\ \E u \in pool : members' = Append(members, u)
  /\ UNCHANGED <<pc, run, messages, issues, user_directory, df_slack, df_linear,
                 rows, result, printed, csv, appVars>>

\* One more message in the channel; its "user" is a member position, or 0
\* for a message with no user.
HistoryMessage ==
  /\ pc = "start"
  /\ Len(messages) < MaxMessages
  /\ \E uid \in 0..RunMaxMembers : messages' = Append(messages, uid)
  /\ UNCHANGED <<pc, run, members, issues, user_directory, df_slack, df_linear,
                 rows, result, printed, csv, appVars>>

\* One more completed issue; its assignee email, or Absent.
LinearIssue ==
  /\ pc = "start"
  /\ Len(issues) < MaxIssues
  /\ \E a \in Emails \cup {Absent} : issues' = Append(issues, a)
  /\ UNCHANGED <<pc, run, members, messages, user_directory, df_slack, df_linear,
                 rows, result, printed, csv, appVars>>

----------------------------------------------------------------------------
(* update_data.py: main, step by step *)

\* Lines 149-160 with fetch_slack_user_directory (lines 11-47).
FetchSlackUserDirectory ==
  /\ pc = "start"
  /\ \E token \in BOOLEAN, api \in SlackOutcomes :
       IF ~token
         THEN /\ pc' = "raised"                      \* line 17: ValueError
              /\ result' = "ValueError"
              /\ UNCHANGED <<user_directory, printed>>
       ELSE IF api = "SlackApiError"
         THEN /\ pc' = "fetch_slack"                 \* lines 23-25
              /\ user_directory' = EmptyDict
              /\ printed' = Append(printed, "Error fetching users")
              /\ UNCHANGED result
       ELSE IF api = "OtherError"
         THEN /\ pc' = "raised"                      \* not caught at line 23
              /\ result' = "OtherError"
              /\ UNCHANGED <<user_directory, printed>>
       ELSE /\ pc' = "fetch_slack"
            /\ user_directory' = BuildDirectory(members)
            /\ UNCHANGED <<result, printed>>
  /\ UNCHANGED <<run, members, messages, issues, df_slack, df_linear, rows, csv,
                 appVars>>

\* Lines 163-164 with fetch_slack_data (lines 52-93).
FetchSlackData ==
  /\ pc = "fetch_slack"
  /\ \E token \in BOOLEAN, channel_id \in BOOLEAN,
        users \in SlackOutcomes, history \in SlackOutcomes :
       IF ~token \/ ~channel_id
         THEN /\ pc' = "fetch_linear"                \* lines 56-58
              /\ df_slack' = EmptyFrame
              /\ printed' = Append(printed, "Skipping Slack data fetch")
              /\ UNCHANGED result
       ELSE IF users = "OtherError" \/ (users = "ok" /\ history = "OtherError")
         THEN /\ pc' = "raised"                      \* not caught at line 91
              /\ result' = "OtherError"
              /\ UNCHANGED <<df_slack, printed>>
       ELSE IF users = "SlackApiError" \/ history = "SlackApiError"
         THEN /\ pc' = "fetch_linear"                \* lines 91-93
              /\ df_slack' = EmptyFrame
              /\ printed' = Append(printed, "Slack API Error")
              /\ UNCHANGED result
       ELSE /\ pc' = "fetch_linear"
            /\ df_slack' = SlackCounts(members, messages)
            /\ UNCHANGED <<result, printed>>
  /\ UNCHANGED <<run, members, messages, issues, user_directory, df_linear, rows,
                 csv, appVars>>

\* Lines 166-167 with fetch_linear_data (lines 98-143).
FetchLinearData ==
  /\ pc = "fetch_linear"
  /\ \E api_key \in BOOLEAN, response \in LinearOutcomes :
       IF ~api_key
         THEN /\ df_linear' = EmptyFrame             \* lines 100-102
              /\ printed' = Append(printed, "Skipping Linear data fetch")
       ELSE IF response = "not200"
         THEN /\ df_linear' = EmptyFrame             \* lines 125-127
              /\ printed' = Append(printed, "Linear API Error")
       ELSE IF response = "Exception"
         THEN /\ df_linear' = EmptyFrame             \* lines 141-143
              /\ printed' = Append(printed, "Linear Connection Error")
       ELSE /\ df_linear' = LinearCounts(issues)
            /\ UNCHANGED printed
  /\ pc' = "merge"
  /\ UNCHANGED <<run, members, messages, issues, user_directory, df_slack, rows,
                 result, csv, appVars>>

\* Lines 169-208: one row per email of all_emails, in the order in which
\* the set is iterated.
MergeRows ==
  /\ pc = "merge"
  /\ \E order \in Perms(AllEmails(user_directory, df_slack, df_linear)) :
       rows' = [i \in 1..Len(order) |->
                  MergedRow(user_directory, df_slack, df_linear, order[i])]
  /\ pc' = "save"
  /\ UNCHANGED <<run, members, messages, issues, user_directory, df_slack,
                 df_linear, result, printed, csv, appVars>>

\* Lines 210-224.
SaveCsv ==
  /\ pc = "save"
  /\ IF rows = <<>>
       THEN /\ result' = "no_data"                   \* lines 211-213
            /\ printed' = Append(printed, "No data found.")
            /\ UNCHANGED csv
       ELSE /\ result' = "saved"                     \* lines 215-223
            /\ printed' = Append(printed, "Saved to data/engagement.csv")
            /\ csv' = [state |-> "ok", rows |-> rows]
  /\ pc' = "done"
  /\ UNCHANGED <<run, members, messages, issues, user_directory, df_slack,
                 df_linear, rows, appVars>>

\* The script is started again (line 226): its locals are new, the file of
\* the earlier run is still there.
NewRun ==
  /\ pc \in {"done", "raised"}
  /\ run < MaxRuns
  /\ run' = run + 1
  /\ pc' = "start"
  /\ members' = <<>>
  /\ messages' = <<>>
  /\ issues' = <<>>
  /\ user_directory' = EmptyDict
  /\ df_slack' = EmptyFrame
  /\ df_linear' = EmptyFrame
  /\ rows' = <<>>
  /\ result' = "running"
  /\ printed' = <<>>
  /\ UNCHANGED <<csv, appVars>>

----------------------------------------------------------------------------
(* Specifications of the aggregation script. *)

NoFile == [state |-> "missing", rows |-> <<>>]

AppIdle ==
  /\ df_raw = <<>>
  /\ df_filtered = <<>>
  /\ w_slack = 0
  /\ w_linear = 0
  /\ df_grouped = <<>>
  /\ df_ranked = <<>>
  /\ app_error = ""

RunInit ==
  /\ pc = "start"
  /\ run = 1
  /\ members = <<>>
  /\ messages = <<>>
  /\ issues = <<>>
  /\ user_directory = EmptyDict
  /\ df_slack = EmptyFrame
  /\ df_linear = EmptyFrame
  /\ rows = <<>>
  /\ result = "running"
  /\ printed = <<>>
  /\ csv = NoFile
  /\ AppIdle

\* Aggregation runs, one after the other, on a file that persists.
Next ==
  \/ UsersListMember(RunMemberRecords, RunMaxMembers)
  \/ HistoryMessage
  \/ LinearIssue
  \/ FetchSlackUserDirectory
  \/ FetchSlackData
  \/ FetchLinearData
  \/ MergeRows
  \/ SaveCsv
  \/ NewRun

Spec == RunInit /\ [][Next]_vars

\* The directory built from every member list.
NextDirectory ==
  \/ UsersListMember(MemberRecords, MaxMembers)
  \/ FetchSlackUserDirectory

SpecDirectory == RunInit /\ [][NextDirectory]_vars

\* The directories, and the count tables, handed to the merge of main.
MergeDirectories ==
  UNION {[S -> [UserName : {"Amy", "u1"}, Role : {"Employee", "Contractor"},
                Avatar : {""}]] : S \in SUBSET Emails}

CountRows == [Email : Emails, Count : 1..MaxCount]

MergeInit ==
  /\ pc = "merge"
  /\ run = 1
  /\ members = <<>>
  /\ messages = <<>>
  /\ issues = <<>>
  /\ user_directory \in MergeDirectories
  /\ df_slack \in SeqsUpTo(CountRows, MaxRows)
  /\ df_linear \in SeqsUpTo(CountRows, MaxRows)
  /\ rows = <<>>
  /\ result = "running"
  /\ printed = <<>>
  /\ csv = NoFile
  /\ AppIdle

NextMerge == MergeRows

\* Lines 169-208 of main on every directory and every pair of count tables.
SpecMerge == MergeInit /\ [][NextMerge]_vars

----------------------------------------------------------------------------
(* app.py: the script, run from its first line to its last *)

\* The names the script has bound when line 50 runs: the imports of lines
\* 1-4 and the two functions.
ScriptNames ==
  {"st", "pd", "np", "datetime", "timedelta", "check_password",
   "load_data_from_csv"}

\* Lines 32-47: the table load_data_from_csv returns, or the exception it
\* ends in.  Line 39 reads the name os, which no line of the script binds:
\* the call ends in NameError before the file is looked at.
LoadDataFromCsv(file) ==
  IF "os" \notin ScriptNames
    THEN [raised |-> "NameError", df |-> <<>>]       \* line 39
  ELSE IF file.state = "missing"
    THEN [raised |-> "", df |-> <<>>]                \* lines 39-40
  ELSE IF file.state = "corrupt"
    THEN [raised |-> "", df |-> <<>>]                \* lines 45-47
  ELSE [raised |-> "", df |-> file.rows]             \* lines 43-44

\* The columns of a table: pd.DataFrame() has none, a table read from the
\* file has those of its rows.
ColumnsOf(df) == IF df = <<>> THEN {} ELSE DOMAIN df[1]

\* What st.sidebar.date_input of lines 62-66 returns: one date while the
\* range is being picked, else two (days, counted from last_week).
DateRanges == {<<0>>, <<0, 7>>}

\* The row test of line 74.
InDateRange(r, date_range) ==
  r.Date >= date_range[1] /\ r.Date <= date_range[2]

\* Lines 69-77: st.stop() on an incomplete range; else df_raw["Date"],
\* which is KeyError on a table with no column Date; else the rows in range.
FilterByDate(df, date_range) ==
  IF Len(date_range) # 2
    THEN [stopped |-> TRUE, raised |-> "", df |-> <<>>]          \* lines 75-77
  ELSE IF "Date" \notin ColumnsOf(df)
    THEN [stopped |-> FALSE, raised |-> "KeyError", df |-> <<>>] \* line 74
  ELSE [stopped |-> FALSE, raised |-> "",
        df |-> SelectSeq(df, LAMBDA r : InDateRange(r, date_range))]

\* Positions of the slider of line 81, in hundredths: 0.0 to 0.5, default 0.1.
SlackWeights == {0, 10, 50}

\* Positions of the slider of line 82, in hundredths: 0.5 to 5.0, default 1.0.
LinearWeights == {50, 100, 500}

UsersOf(df) == {df[k].User : k \in 1..Len(df)}

\* The group keys in ascending order (groupby sorts its keys).
SortedUsers(df) ==
  CHOOSE p \in Perms(UsersOf(df)) :
    \A i \in 1..Len(p), j \in 1..Len(p) : i < j => StrLt(p[i], p[j])

RECURSIVE GroupSum(_, _, _, _)
\* The sum of the three columns over the rows of one user, from row k on.
GroupSum(df, user, k, acc) ==
  IF k > Len(df) THEN acc
  ELSE IF df[k].User = user
    THEN GroupSum(df, user, k + 1,
                  [User         |-> user,
                   SlackCount   |-> acc.SlackCount + df[k].SlackCount,
                   LinearCount  |-> acc.LinearCount + df[k].LinearCount,
                   WorkingHours |-> acc.WorkingHours + df[k].WorkingHours])
    ELSE GroupSum(df, user, k + 1, acc)

\* Line 88: groupby("User")[[...]].sum().reset_index()
GroupByUser(df) ==
  LET users == SortedUsers(df)
  IN [i \in 1..Len(users) |->
        GroupSum(df, users[i], 1,
                 [User |-> users[i], SlackCount |-> 0, LinearCount |-> 0,
                  WorkingHours |-> 0])]

\* Line 96: .replace(0, 1)
ReplaceZeroByOne(h) == IF h = 0 THEN 1 ELSE h

\* Lines 91-96 compute in float64.  A natural number is the sequence of its
\* binary digits, lowest first and with no zero at the high end (0 is <<>>);
\* a float64 value that is finite and not negative is the record
\* [bits, exp] of the number bits * 2^exp with bits odd, or Float64Zero.
\* The counts, weights and hours of the script are far from the overflow
\* and the subnormal range, which are left out.
Float64Precision == 53

Float64Zero == [bits |-> <<>>, exp |-> 0]

Zeros(k) == [i \in 1..k |-> 0]

RECURSIVE BitsOfNat(_)
BitsOfNat(n) == IF n = 0 THEN <<>> ELSE <<n % 2>> \o BitsOfNat(n \div 2)

BitAt(b, i) == IF i \in 1..Len(b) THEN b[i] ELSE 0

\* The positions of the digits 1 of b.
OnesOf(b) == {i \in 1..Len(b) : b[i] = 1}

\* b with the zeros at the high end taken out.
TrimHigh(b) ==
  IF OnesOf(b) = {} THEN <<>>
  ELSE SubSeq(b, 1, CHOOSE m \in OnesOf(b) : \A o \in OnesOf(b) : o <= m)

RECURSIVE BitsAddRange(_, _, _, _, _)
\* The digits lo..hi of a + b with the carry cin into lo, and the carry out
\* of hi; the range is halved at each step.
BitsAddRange(a, b, lo, hi, cin) ==
  IF lo = hi
    THEN [s |-> <<(BitAt(a, lo) + BitAt(b, lo) + cin) % 2>>,
          c |-> (BitAt(a, lo) + BitAt(b, lo) + cin) \div 2]
    ELSE LET mid  == (lo + hi) \div 2
             low  == BitsAddRange(a, b, lo, mid, cin)
             high == BitsAddRange(a, b, mid + 1, hi, low.c)
         IN [s |-> low.s \o high.s, c |-> high.c]

BitsAdd(a, b) ==
  LET n == IF Len(a) < Len(b) THEN Len(b) + 1 ELSE Len(a) + 1
  IN TrimHigh(BitsAddRange(a, b, 1, n, 0).s)

RECURSIVE BitsSubRange(_, _, _, _, _)
\* The digits lo..hi of a - b with the borrow bin from lo, and the borrow
\* out of hi.
BitsSubRange(a, b, lo, hi, bin) ==
  IF lo = hi
    THEN [s |-> <<(BitAt(a, lo) - BitAt(b, lo) - bin + 2) % 2>>,
          c |-> IF BitAt(a, lo) - BitAt(b, lo) - bin < 0 THEN 1 ELSE 0]
    ELSE LET mid  == (lo + hi) \div 2
             low  == BitsSubRange(a, b, lo, mid, bin)
             high == BitsSubRange(a, b, mid + 1, hi, low.c)
         IN [s |-> low.s \o high.s, c |-> high.c]

\* a - b, for a >= b
BitsSub(a, b) ==
  IF a = <<>> THEN <<>> ELSE TrimHigh(BitsSubRange(a, b, 1, Len(a), 0).s)

BitsLt(a, b) ==
  \/ Len(a) < Len(b)
  \/ /\ Len(a) = Len(b)
     /\ \E i \in 1..Len(a) :
          /\ a[i] < b[i]
          /\ \A j \in (i + 1)..Len(a) : a[j] = b[j]

RECURSIVE BitsMulRange(_, _, _, _)
\* The sum of b * 2^(i-1) over the digits 1 of a at the positions lo..hi.
BitsMulRange(a, b, lo, hi) ==
  IF lo = hi
    THEN IF a[lo] = 1 THEN Zeros(lo - 1) \o b ELSE <<>>
    ELSE LET mid == (lo + hi) \div 2
         IN BitsAdd(BitsMulRange(a, b, lo, mid),
                    BitsMulRange(a, b, mid + 1, hi))

BitsMul(a, b) ==
  IF a = <<>> \/ b = <<>> THEN <<>> ELSE BitsMulRange(a, b, 1, Len(a))

\* One step of the long division of n by d, at the digit i of n: st holds
\* the quotient and the remainder of the digits above i.
BitsDivStep(st, n, d, i) ==
  LET r2 == TrimHigh(<<n[i]>> \o st.r)
  IN IF BitsLt(r2, d)
       THEN [q |-> <<0>> \o st.q, r |-> r2]
       ELSE [q |-> <<1>> \o st.q, r |-> BitsSub(r2, d)]

RECURSIVE BitsDivRange(_, _, _, _, _)
\* The steps of the long division for the digits hi down to lo: those of
\* the upper half, then those of the lower half on their result.
BitsDivRange(st, n, d, hi, lo) ==
  IF hi = lo THEN BitsDivStep(st, n, d, hi)
  ELSE LET mid == (hi + lo) \div 2
       IN CHOOSE res \in {BitsDivRange(upper, n, d, mid, lo) :
                            upper \in {BitsDivRange(st, n, d, hi, mid + 1)}} :
            TRUE

\* Quotient q and remainder r of n / d, for n > 0 and d > 0.
BitsDivMod(n, d) ==
  LET st == BitsDivRange([q |-> <<>>, r |-> <<>>], n, d, Len(n), 1)
  IN [q |-> TrimHigh(st.q), r |-> st.r]

\* The record of bits * 2^exp with the zeros at the low end taken out.
StripLow(bits, exp) ==
  IF OnesOf(bits) = {} THEN Float64Zero
  ELSE LET low == CHOOSE m \in OnesOf(bits) : \A o \in OnesOf(bits) : m <= o
       IN [bits |-> SubSeq(bits, low, Len(bits)), exp |-> exp + low - 1]

\* The float64 nearest to bits * 2^exp (plus a nonzero part below the last
\* digit when sticky), halfway cases to the even neighbour.
Float64Round(bits, exp, sticky) ==
  IF Len(bits) <= Float64Precision THEN StripLow(bits, exp)
  ELSE LET drop == Len(bits) - Float64Precision
           kept == SubSeq(bits, drop + 1, Len(bits))
           rest == sticky \/ \E i \in 1..(drop - 1) : bits[i] = 1
           up   == bits[drop] = 1 /\ (rest \/ kept[1] = 1)
       IN StripLow(IF up THEN BitsAdd(kept, <<1>>) ELSE kept, exp + drop)

\* The conversion of an int64 column to float64.
Float64OfInt(n) == StripLow(BitsOfNat(n), 0)

Float64Mul(x, y) ==
  Float64Round(BitsMul(x.bits, y.bits), x.exp + y.exp, FALSE)

Float64Add(x, y) ==
  IF x = Float64Zero THEN y
  ELSE IF y = Float64Zero THEN x
  ELSE LET e == IF x.exp < y.exp THEN x.exp ELSE y.exp
       IN Float64Round(BitsAdd(Zeros(x.exp - e) \o x.bits,
                               Zeros(y.exp - e) \o y.bits), e, FALSE)

\* x / y for y > 0: the quotient to Float64Precision + 2 digits or more,
\* then rounded.
Float64Div(x, y) ==
  IF x = Float64Zero THEN Float64Zero
  ELSE LET k  == Float64Precision + 2 + Len(y.bits) - Len(x.bits)
           qr == BitsDivMod(Zeros(k) \o x.bits, y.bits)
       IN Float64Round(qr.q, x.exp - y.exp - k, qr.r # <<>>)

Float64Lt(x, y) ==
  IF y = Float64Zero THEN FALSE
  ELSE IF x = Float64Zero THEN TRUE
  ELSE LET e == IF x.exp < y.exp THEN x.exp ELSE y.exp
       IN BitsLt(Zeros(x.exp - e) \o x.bits, Zeros(y.exp - e) \o y.bits)

\* The float a slider returns at the position h / 100: the float64 nearest
\* to that decimal.
SliderValue(h) == Float64Div(Float64OfInt(h), Float64OfInt(100))

\* Lines 91-96 on one record, in float64.
ScoreRecord(g, ws, wl) ==
  LET slack  == Float64Mul(Float64OfInt(g.SlackCount), ws)
      linear == Float64Mul(Float64OfInt(g.LinearCount), wl)
      total  == Float64Add(slack, linear)
  IN [User         |-> g.User,
      SlackCount   |-> g.SlackCount,
      LinearCount  |-> g.LinearCount,
      WorkingHours |-> g.WorkingHours,
      SlackScore   |-> slack,
      LinearScore  |-> linear,
      TotalScore   |-> total,
      Productivity |->
        Float64Div(total, Float64OfInt(ReplaceZeroByOne(g.WorkingHours)))]

\* Lines 88-96: df_grouped with its score columns.
ScoredTable(df, ws, wl) ==
  LET grouped == GroupByUser(df)
  IN [i \in 1..Len(grouped) |-> ScoreRecord(grouped[i], ws, wl)]

\* sort_values("Total Score", ascending=False), line 99: one key and the
\* default kind, which is not stable.  The orders of the positions of df
\* with the scores descending; records with equal scores in any order.
SortedByTotal(df) ==
  {p \in Perms(1..Len(df)) :
     \A i \in 1..Len(p), j \in 1..Len(p) :
       i < j => ~Float64Lt(df[p[i]].TotalScore, df[p[j]].TotalScore)}

\* Lines 99-100: the tables the sort may give.
RankedTables(df) ==
  {[i \in 1..Len(df) |-> df[p[i]]] : p \in SortedByTotal(df)}

\* Lines 7-25: the page goes on only with the configured password.
CheckPassword ==
  /\ pc = "app_start"
  /\ \E configured \in BOOLEAN, password \in {"", "right", "wrong"} :
       pc' = IF configured /\ password = "right" THEN "page" ELSE "stopped"
  /\ UNCHANGED <<runVars, appVars>>

\* Lines 27-167: the page, from the load of the file to the last widget.
\* An exception ends the script where it is raised; the names bound before
\* it keep their values.
RunPage ==
  /\ pc = "page"
  /\ \E date_range \in DateRanges, ws \in SlackWeights, wl \in LinearWeights :
       LET loaded   == LoadDataFromCsv(csv)
           filtered == FilterByDate(loaded.df, date_range)
           scored   == ScoredTable(filtered.df, SliderValue(ws),
                                   SliderValue(wl))
       IN IF loaded.raised # ""
            THEN /\ pc' = "app_raised"               \* line 50
                 /\ app_error' = loaded.raised
                 /\ UNCHANGED <<df_raw, df_filtered, w_slack, w_linear,
                                df_grouped, df_ranked>>
          ELSE IF filtered.stopped
            THEN /\ pc' = "stopped"                  \* line 77
                 /\ df_raw' = loaded.df
                 /\ UNCHANGED <<df_filtered, w_slack, w_linear, df_grouped,
                                df_ranked, app_error>>
          ELSE IF filtered.raised # ""
            THEN /\ pc' = "app_raised"               \* line 74
                 /\ app_error' = filtered.raised
                 /\ df_raw' = loaded.df
                 /\ UNCHANGED <<df_filtered, w_slack, w_linear, df_grouped,
                                df_ranked>>
          ELSE /\ pc' = "rendered"                   \* lines 79-167
               /\ df_raw' = loaded.df
               /\ df_filtered' = filtered.df
               /\ w_slack' = SliderValue(ws)
               /\ w_linear' = SliderValue(wl)
               /\ df_grouped' = scored
               /\ df_ranked' \in RankedTables(scored)
               /\ UNCHANGED app_error
  /\ UNCHANGED runVars

----------------------------------------------------------------------------
(* Specification of the dashboard script. *)

RunIdle ==
  /\ run = 1
  /\ members = <<>>
  /\ messages = <<>>
  /\ issues = <<>>
  /\ user_directory = EmptyDict
  /\ df_slack = EmptyFrame
  /\ df_linear = EmptyFrame
  /\ rows = <<>>
  /\ result = "running"
  /\ printed = <<>>

\* The tables main can have written: the merge of a directory and of two
\* count tables of at most one row, when it has a row.
WrittenTables ==
  {t \in UNION {UNION {UNION {
       {[i \in 1..Len(order) |-> MergedRow(d, ds, dl, order[i])] :
          order \in Perms(AllEmails(d, ds, dl))} :
       dl \in SeqsUpTo(CountRows, 1)} :
       ds \in SeqsUpTo(CountRows, 1)} :
       d \in MergeDirectories} : t # <<>>}

AppInit ==
  /\ pc = "app_start"
  /\ RunIdle
  /\ \/ csv = NoFile
     \/ csv = [state |-> "corrupt", rows |-> <<>>]
     \/ \E t \in WrittenTables : csv = [state |-> "ok", rows |-> t]
  /\ AppIdle

NextApp ==
  \/ CheckPassword
  \/ RunPage

\* The dashboard script from its first line, on every state of the file.
SpecApp == AppInit /\ [][NextApp]_vars

----------------------------------------------------------------------------
(* Lines 79-100 as a function of the table they are given. *)

\* df_filtered is a table main can have written, read whole.  The script as
\* it stands ends before line 79 (LoadDataFromCsv, FilterByDate); here the
\* ranking is applied to the table it is written for.
RankInit ==
  /\ pc = "rank"
  /\ RunIdle
  /\ \E t \in WrittenTables :
       /\ csv = [state |-> "ok", rows |-> t]
       /\ df_raw = t
       /\ df_filtered = t
  /\ w_slack = 0
  /\ w_linear = 0
  /\ df_grouped = <<>>
  /\ df_ranked = <<>>
  /\ app_error = ""

\* Lines 81-100: the sliders, the groups, the scores and the sort.
RankTable ==
  /\ pc = "rank"
  /\ \E ws \in SlackWeights, wl \in LinearWeights :
       LET scored == ScoredTable(df_filtered, SliderValue(ws), SliderValue(wl))
       IN /\ w_slack' = SliderValue(ws)
          /\ w_linear' = SliderValue(wl)
          /\ df_grouped' = scored
          /\ df_ranked' \in RankedTables(scored)
  /\ pc' = "ranked"
  /\ UNCHANGED <<runVars, df_raw, df_filtered, app_error>>

NextRank == RankTable

SpecRank == RankInit /\ [][NextRank]_vars

----------------------------------------------------------------------------
(* Properties of the aggregation script. *)

\* The three key sets handed to the merge.
DirectoryKeys == DOMAIN user_directory
SlackKeys == {df_slack[k].Email : k \in 1..Len(df_slack)}
LinearKeys == {df_linear[k].Email : k \in 1..Len(df_linear)}
KeyUnion == DirectoryKeys \cup SlackKeys \cup LinearKeys

RowsOf(email) == {i \in 1..Len(rows) : rows[i].Email = email}

\* C1: the merged table has exactly one row per email of the union of the
\* directory keys, the messaging-count keys and the tracker-count keys: no
\* email is missing, none appears twice, no row is outside the union.
C1_OneRowPerEmailOfUnion ==
  pc = "save" =>
    /\ \A e \in KeyUnion : Cardinality(RowsOf(e)) = 1
    /\ \A i \in 1..Len(rows) : rows[i].Email \in KeyUnion
    /\ Len(rows) = Cardinality(KeyUnion)

\* C1 witness: a merge of two emails, one known to the directory alone and
\* one known to the tracker alone.
C1_Witness ==
  /\ pc = "save"
  /\ Len(rows) = 2
  /\ \E e \in DirectoryKeys : e \notin SlackKeys /\ e \notin LinearKeys
  /\ \E e \in LinearKeys : e \notin DirectoryKeys /\ e \notin SlackKeys

\* C2: no failure of one source aborts the run: no fetch raises, whatever
\* credentials are missing and whatever API call fails.
C2_NoFetchAbortsRun == pc # "raised"

\* C6: when a run has ended, the file holds exactly the rows of that run,
\* and a run with an empty universe ended in the empty-result state.
C6_FileHoldsRowsOfRun ==
  pc = "done" =>
    /\ csv.rows = rows
    /\ rows = <<>> => result = "no_data"

RECURSIVE SumOver(_, _)
\* The sum of the counts of the rows of df at the positions of idx.
SumOver(df, idx) ==
  IF idx = {} THEN 0
  ELSE LET k == CHOOSE x \in idx : TRUE
       IN df[k].Count + SumOver(df, idx \ {k})

EntriesOf(df, email) == {k \in 1..Len(df) : df[k].Email = email}

\* C8: every merged row is filled by the default policy: an email outside
\* the directory gets its email as name, role Unknown and 20 hours; an email
\* of the directory gets its name and role, 40 hours as Employee and 20 as
\* Contractor; each count is the sum of the source's entries for the email
\* (0 with no entry); working hours are never 0.
C8_RowsFilledByPolicy ==
  pc = "save" =>
    \A i \in 1..Len(rows) :
      LET r == rows[i]
          e == rows[i].Email
      IN /\ e \notin DirectoryKeys =>
              r.User = e /\ r.Role = "Unknown" /\ r.WorkingHours = 20
         /\ e \in DirectoryKeys =>
              /\ r.User = user_directory[e].UserName
              /\ r.Role = user_directory[e].Role
              /\ r.Role = "Employee" => r.WorkingHours = 40
              /\ r.Role = "Contractor" => r.WorkingHours = 20
         /\ r.SlackCount = SumOver(df_slack, EntriesOf(df_slack, e))
         /\ r.LinearCount = SumOver(df_linear, EntriesOf(df_linear, e))
         /\ r.WorkingHours # 0

\* C8 witness: a merge with an Employee of the directory, an email known to
\* the tracker only, and an email with two entries in the messaging table.
C8_Witness ==
  /\ pc = "save"
  /\ \E i \in 1..Len(rows) : rows[i].Role = "Employee"
  /\ \E i \in 1..Len(rows) :
       /\ rows[i].Role = "Unknown"
       /\ rows[i].SlackCount = 0
       /\ rows[i].LinearCount > 0
  /\ \E i \in 1..Len(rows) :
       /\ Cardinality(EntriesOf(df_slack, rows[i].Email)) = 2
       /\ rows[i].SlackCount > MaxCount

\* A member record that is not a bot, not deleted and has profile data.
Qualifies(u) == ~u.is_bot /\ ~u.deleted /\ u.has_profile

QualifyingWith(email) ==
  {i \in 1..Len(members) : members[i].email = email /\ Qualifies(members[i])}

\* The last record of the response that gives the entry of an email.
LastQualifying(email) ==
  CHOOSE i \in QualifyingWith(email) : \A j \in QualifyingWith(email) : j <= i

\* C9: the directory built from a member list has an entry for an email
\* exactly when a record with that email is not a bot, not deleted and has
\* profile data; records with no email give no entry; the role is
\* Contractor for a restricted or ultra-restricted record and Employee
\* otherwise; the name is the real name when present, else the handle.
C9_DirectoryOfMembers ==
  (pc = "fetch_slack" /\ printed = <<>>) =>
    /\ \A e \in Emails : e \in DOMAIN user_directory <=> QualifyingWith(e) # {}
    /\ DOMAIN user_directory \subseteq Emails
    /\ \A e \in DOMAIN user_directory :
         LET u == members[LastQualifying(e)]
         IN /\ user_directory[e].Role =
                 (IF u.is_restricted \/ u.is_ultra_restricted
                    THEN "Contractor" ELSE "Employee")
            /\ user_directory[e].UserName =
                 (IF u.real_name # "" THEN u.real_name
                  ELSE Handles[LastQualifying(e)])

\* C9 witness: a response with a deleted member that has an email and no
\* entry, and a guest without real name that has one.
C9_Witness ==
  /\ pc = "fetch_slack"
  /\ printed = <<>>
  /\ \E i \in 1..Len(members) :
       /\ members[i].deleted
       /\ members[i].email \in Emails
       /\ members[i].email \notin DOMAIN user_directory
  /\ \E e \in DOMAIN user_directory :
       /\ user_directory[e].Role = "Contractor"
       /\ user_directory[e].UserName = "u2"

\* The messages posted by a member with this email that is neither a bot
\* nor deleted.
CountableMessages(email) ==
  {j \in 1..Len(messages) :
     /\ messages[j] \in 1..Len(members)
     /\ members[messages[j]].email = email
     /\ ~members[messages[j]].is_bot
     /\ ~members[messages[j]].deleted}

\* C10: the messages of a member flagged as bot or deleted are counted
\* toward no identity, so no row of the messaging table, and no Unknown row
\* of the merged table with messages, rests on such a member alone.
C10_ExcludedMemberNotCounted ==
  /\ pc \in {"fetch_linear", "merge", "save", "done"} =>
       \A k \in 1..Len(df_slack) :
         df_slack[k].Count = Cardinality(CountableMessages(df_slack[k].Email))
  /\ pc \in {"save", "done"} =>
       \A i \in 1..Len(rows) :
         (rows[i].Role = "Unknown" /\ rows[i].SlackCount > 0) =>
           CountableMessages(rows[i].Email) # {}

----------------------------------------------------------------------------
(* Properties of the dashboard script. *)

\* The script went past the password on a file main has written, and has
\* run to its end or to an exception.
PageRan == pc \in {"app_raised", "rendered"} /\ csv.state = "ok"

\* The ranked record at position i is the record of row k of the file.
RecordOfRow(i, k) ==
  /\ df_ranked[i].User = csv.rows[k].User
  /\ df_ranked[i].SlackCount = csv.rows[k].SlackCount
  /\ df_ranked[i].LinearCount = csv.rows[k].LinearCount
  /\ df_ranked[i].WorkingHours = csv.rows[k].WorkingHours

C4_OneRecordPerEmail ==
  PageRan =>
    /\ Len(df_ranked) = Len(csv.rows)
    /\ \A k \in 1..Len(csv.rows) :
         \E i \in 1..Len(df_ranked) : RecordOfRow(i, k)

\* C5: every record of the table gets slack score = slack count * messaging
\* weight, linear score = linear count * tracker weight, total = their sum,
\* and productivity = total / working hours when the hours are positive and
\* total / 1 when they are 0, without a fault.
C5_ScoresAndProductivity ==
  PageRan =>
    /\ app_error = ""
    /\ \A k \in 1..Len(csv.rows) :
         \E i \in 1..Len(df_ranked) :
           LET r == df_ranked[i]
           IN /\ r.User = csv.rows[k].User
              /\ r.SlackScore = Float64Mul(Float64OfInt(r.SlackCount), w_slack)
              /\ r.LinearScore =
                   Float64Mul(Float64OfInt(r.LinearCount), w_linear)
              /\ r.TotalScore = Float64Add(r.SlackScore, r.LinearScore)
              /\ r.WorkingHours > 0 =>
                   r.Productivity =
                     Float64Div(r.TotalScore, Float64OfInt(r.WorkingHours))
              /\ r.WorkingHours = 0 =>
                   r.Productivity = Float64Div(r.TotalScore, Float64OfInt(1))

\* C7: with the file missing or corrupt, the script reads an empty table
\* and goes on without failing.
C7_EmptyFileHandled ==
  csv.state \in {"missing", "corrupt"} => pc # "app_raised"

====
